---- MODULE Spec2Model ----
(***************************************************************************)
(* Model of the mock business system: the CRM service (mock_crm.py), the   *)
(* ERP service (mock_erp.py), the email service (mock_email.py) and the    *)
(* transaction test harness (test_cases.py).                               *)
(*                                                                         *)
(* Money is a Python float in the source.  The model counts it in          *)
(* thousandths of a currency unit (Dollars, Cents below), so that the      *)
(* 0.01 tolerance of process_payment is 10 units and amounts below the     *)
(* tolerance exist.  Arithmetic is exact decimal arithmetic.               *)
(*                                                                         *)
(* datetime.now() is the logical clock `now`, which advances by one with   *)
(* every request that can write to a store (read-only requests are         *)
(* answered at the current time); uuid.uuid4() is the counter `uuids`.     *)
(***************************************************************************)
EXTENDS Integers, Sequences, FiniteSets, TLC

VARIABLES
    customers,      \* mock_crm.customers: customer id -> record
    transactions,   \* mock_crm.transactions: the CRM ledger
    invoices,       \* mock_erp.invoices: invoice id -> record
    payments,       \* mock_erp.payments: the payment log
    purchase_orders,\* mock_erp.purchase_orders: purchase order id -> record
    requests,       \* process_payment: per server thread, the request it is
                    \* handling and the handler's local variables
    sent_emails,    \* mock_email.sent_emails: the email log
    notification_rules, \* mock_email.notification_rules: the stored rules
    now,            \* datetime.now(): logical clock
    uuids,          \* uuid.uuid4(): number of ids handed out
    response,       \* the last HTTP exchange of a service: the response, and in
                    \* its field request the request it answers
    pc,             \* run_single_test: the step the harness is about to run
    transaction,    \* run_single_test: the transaction under test
    steps,          \* run_single_test: result["steps"]
    actual_outcome, \* run_single_test: result["actual_outcome"]
    listening,      \* check_services_health: who listened when the health of the
                    \* services was checked (the services that were up, and the
                    \* answer of a foreign process on a port of none of them)
    results         \* TransactionTestRunner.results

crmVars     == <<customers, transactions>>
erpVars     == <<invoices, payments, purchase_orders, requests>>
emailVars   == <<sent_emails, notification_rules>>
runVars     == <<listening, results>>
harnessVars == <<pc, transaction, steps, actual_outcome, listening, results>>
vars == <<customers, transactions, invoices, payments, purchase_orders, requests,
          sent_emails,
          notification_rules, now,
          uuids,
          response, pc, transaction, steps, actual_outcome, listening, results>>

-----------------------------------------------------------------------------
(* Units and Python values *)

Dollars(d) == d * 1000
Cents(c)   == c * 10

\* Python's None in a field that otherwise holds a timestamp (timestamps are >= 0).
None == 0 - 1

\* Python's None where a step of the harness holds no data.
NoData == [none |-> TRUE]

abs(x) == IF x < 0 THEN 0 - x ELSE x

-----------------------------------------------------------------------------
(* Bounds of the model *)

MaxCrmRequests == 2
MaxErpRequests == 2
MaxHarnessPayments == 2
MaxEmailRequests == 2

-----------------------------------------------------------------------------
(* mock_crm.py *)

Customer(id, account_number, status, credit_limit, current_balance) ==
    [id |-> id, account_number |-> account_number, status |-> status,
     credit_limit |-> credit_limit, current_balance |-> current_balance,
     last_payment_date |-> None, last_payment_amount |-> 0]

InitialCustomers ==
    [cust_001 |-> Customer("cust_001", "ACC-789123456", "active", Dollars(50000), Dollars(12500)),
     cust_002 |-> Customer("cust_002", "ACC-456789123", "active", Dollars(25000), Dollars(8750)),
     cust_003 |-> Customer("cust_003", "ACC-123456789", "suspended", Dollars(75000), Dollars(45000)),
     cust_004 |-> Customer("cust_004", "ACC-747335152", "active", Dollars(46090) + Cents(56), Dollars(8000)),
     cust_005 |-> Customer("cust_005", "ACC-947762119", "active", Dollars(69436) + Cents(61), Dollars(12000)),
     cust_006 |-> Customer("cust_006", "ACC-224463713", "active", Dollars(60375) + Cents(80), Dollars(20000)),
     cust_007 |-> Customer("cust_007", "ACC-292633378", "active", Dollars(32527) + Cents(73), Dollars(13500)),
     cust_008 |-> Customer("cust_008", "ACC-251282710", "active", Dollars(38137) + Cents(81), Dollars(17500)),
     cust_009 |-> Customer("cust_009", "ACC-405304433", "active", Dollars(95166) + Cents(53), Dollars(12500)),
     cust_010 |-> Customer("cust_010", "ACC-344234870", "active", Dollars(98397) + Cents(49), Dollars(24000)),
     cust_011 |-> Customer("cust_011", "ACC-839584586", "active", Dollars(37436) + Cents(88), Dollars(24000)),
     cust_012 |-> Customer("cust_012", "ACC-256402142", "active", Dollars(80447) + Cents(62), Dollars(12000)),
     cust_013 |-> Customer("cust_013", "ACC-476568423", "active", Dollars(32232) + Cents(82), Dollars(20000))]

CustomerIds == DOMAIN InitialCustomers

\* The customer ids, amounts and types that update_balance requests carry.
UpdateCustomerIds == {"cust_001", "cust_002", "cust_404"}
UpdateAmounts     == {Dollars(5000), Dollars(70000), 0 - Dollars(40000)}
UpdateTypes       == {"payment", "charge", "adjustment", "refund"}

\* Mutant of BalanceAfter: an adjustment is subtracted like a payment.
BalanceAfter_AdjustmentSubtracts(current_balance, amount, transaction_type) ==
    CASE transaction_type = "payment"    -> current_balance - amount
      [] transaction_type = "charge"     -> current_balance + amount
      [] transaction_type = "adjustment" -> current_balance - amount
      [] OTHER                           -> current_balance

\* update_balance, lines 261-270: the balance is changed in place, before the
\* credit-limit check.
BalanceAfter(current_balance, amount, transaction_type) ==
    CASE transaction_type = "payment"    -> current_balance - amount
      [] transaction_type = "charge"     -> current_balance + amount
      [] transaction_type = "adjustment" -> current_balance + amount
      [] OTHER                           -> current_balance

\* update_balance, lines 263-270: the customer record after the in-place update.
CustomerAfterUpdate(customer, amount, transaction_type) ==
    IF transaction_type = "payment"
    THEN [customer EXCEPT !.current_balance = BalanceAfter(@, amount, transaction_type),
                          !.last_payment_date = now,
                          !.last_payment_amount = amount]
    ELSE [customer EXCEPT !.current_balance = BalanceAfter(@, amount, transaction_type)]

\* update_balance, lines 273-275: the request is answered with 400.
ExceedsCreditLimit(customer) ==
    /\ customer.current_balance < 0
    /\ abs(customer.current_balance) > customer.credit_limit

\* POST /api/customers/<customer_id>/update-balance
update_balance(customer_id, amount, transaction_type) ==
    IF customer_id \notin DOMAIN customers
    THEN /\ response' = [service |-> "CRM", op |-> "update_balance", status |-> 404,
                         request |-> [customer_id |-> customer_id, amount |-> amount,
                                      type |-> transaction_type],
                         body |-> [error |-> "Customer not found"]]
         /\ UNCHANGED <<customers, transactions, uuids>>
    ELSE LET old_balance == customers[customer_id].current_balance
             updated     == CustomerAfterUpdate(customers[customer_id], amount, transaction_type)
         IN  /\ customers' = [customers EXCEPT ![customer_id] = updated]
             /\ IF ExceedsCreditLimit(updated)
                THEN /\ response' = [service |-> "CRM", op |-> "update_balance", status |-> 400,
                                     request |-> [customer_id |-> customer_id, amount |-> amount,
                                                  type |-> transaction_type],
                                     body |-> [error |-> "Payment would exceed credit limit",
                                               available_credit |-> updated.credit_limit,
                                               attempted_balance |-> updated.current_balance]]
                     /\ UNCHANGED <<transactions, uuids>>
                ELSE LET record == [id |-> uuids + 1,
                                    customer_id |-> customer_id,
                                    amount |-> amount,
                                    type |-> transaction_type,
                                    timestamp |-> now,
                                    old_balance |-> old_balance,
                                    new_balance |-> updated.current_balance,
                                    processed_by |-> "system"]
                     IN  /\ transactions' = Append(transactions, record)
                         /\ uuids' = uuids + 1
                         /\ response' = [service |-> "CRM", op |-> "update_balance", status |-> 200,
                                         request |-> [customer_id |-> customer_id,
                                                      amount |-> amount,
                                                      type |-> transaction_type],
                                         body |-> [transaction |-> record,
                                                   customer |-> updated,
                                                   balance_change |->
                                                       IF transaction_type = "charge"
                                                       THEN amount ELSE 0 - amount]]

UpdateBalance ==
    /\ now < MaxCrmRequests
    /\ \E customer_id \in UpdateCustomerIds, amount \in UpdateAmounts,
          transaction_type \in UpdateTypes :
            update_balance(customer_id, amount, transaction_type)
    /\ now' = now + 1
    /\ UNCHANGED <<erpVars, emailVars, harnessVars>>

\* The customer ids and amounts that credit-check requests carry.
CreditCheckCustomerIds == {"cust_001", "cust_003", "cust_404"}
CreditCheckAmounts     == {Dollars(5000), Dollars(37500), Dollars(37500) + 1}

\* Mutant of CreditApproved: the customer's status is not looked at.
CreditApproved_IgnoresStatus(customer, amount) ==
    amount <= customer.credit_limit - customer.current_balance

\* credit_check, lines 236 and 244
CreditApproved(customer, amount) ==
    /\ amount <= customer.credit_limit - customer.current_balance
    /\ customer.status = "active"

\* GET /api/customers/<customer_id>/credit-check?amount=X: the response.
credit_check(customer_id, amount) ==
    IF customer_id \notin DOMAIN customers
    THEN [service |-> "CRM", op |-> "credit_check", status |-> 404,
          request |-> [customer_id |-> customer_id, amount |-> amount],
          body |-> [error |-> "Customer not found"]]
    ELSE LET customer == customers[customer_id]
         IN  [service |-> "CRM", op |-> "credit_check", status |-> 200,
              request |-> [customer_id |-> customer_id, amount |-> amount],
              body |-> [customer_id |-> customer_id,
                        credit_limit |-> customer.credit_limit,
                        current_balance |-> customer.current_balance,
                        available_credit |->
                            customer.credit_limit - customer.current_balance,
                        requested_amount |-> amount,
                        approved |-> CreditApproved(customer, amount),
                        status |-> customer.status]]

CreditCheck ==
    /\ \E customer_id \in CreditCheckCustomerIds, amount \in CreditCheckAmounts :
            response' = credit_check(customer_id, amount)
    /\ UNCHANGED <<crmVars, erpVars, emailVars, harnessVars, now, uuids>>

\* GET /api/customers/by-account/<account_number>: the response.
get_customer_by_account(account_number) ==
    LET found == {id \in DOMAIN customers : customers[id].account_number = account_number}
    IN  IF found # {}
        THEN [service |-> "CRM", op |-> "get_customer_by_account", status |-> 200,
              body |-> customers[CHOOSE id \in found : TRUE]]
        ELSE [service |-> "CRM", op |-> "get_customer_by_account", status |-> 404,
              body |-> [error |-> "Customer not found"]]

-----------------------------------------------------------------------------
(* mock_erp.py *)

Invoice(id, customer_account, amount, status) ==
    [id |-> id, customer_account |-> customer_account, amount |-> amount,
     status |-> status, paid_amount |-> 0, paid_date |-> None,
     last_payment_date |-> None, last_payment_amount |-> 0]

InitialInvoices ==
    ("INV-2025-001" :> Invoice("INV-2025-001", "ACC-789123456", Dollars(12500), "pending")) @@
    ("INV-2025-002" :> Invoice("INV-2025-002", "ACC-456789123", Dollars(8750), "overdue")) @@
    ("INV-2025-003" :> Invoice("INV-2025-003", "ACC-123456789", Dollars(45000), "pending"))

InvoiceIds == DOMAIN InitialInvoices

PurchaseOrder(id, supplier, amount, status) ==
    [id |-> id, supplier |-> supplier, amount |-> amount, status |-> status]

InitialPurchaseOrders ==
    ("PO-2025-101" :> PurchaseOrder("PO-2025-101", "Tech Components Inc", Dollars(25000), "approved")) @@
    ("PO-2025-102" :> PurchaseOrder("PO-2025-102", "Office Supplies Ltd", Dollars(1500), "pending"))

\* The threads of the development server (app.run, threaded by default) that
\* handle payment requests, and the state of a thread that handles none.
Threads == {1, 2}
Idle == [pc |-> "idle"]

\* The invoice ids and amounts that payment requests carry.
PaymentInvoiceIds == {"INV-2025-001", "INV-2025-002", "INV-404"}
PaymentAmounts ==
    {0 - Dollars(100), 0, Dollars(3750), Dollars(5000),
     Dollars(12500) - Cents(2), Dollars(12500) - Cents(1), Dollars(12500) - 5,
     Dollars(12500), Dollars(20000)}

\* sum(p['amount'] for p in payments if p['invoice_id'] == invoice_id)
RECURSIVE SumPayments(_, _)
SumPayments(log, invoice_id) ==
    IF log = <<>> THEN 0
    ELSE (IF Head(log).invoice_id = invoice_id THEN Head(log).amount ELSE 0)
         + SumPayments(Tail(log), invoice_id)

\* Mutant of OutstandingAmount: the prior payments are not subtracted.
OutstandingAmount_IgnoringPayments(invoice_id) ==
    invoices[invoice_id].amount

\* process_payment, lines 146-147
OutstandingAmount(invoice_id) ==
    invoices[invoice_id].amount - SumPayments(payments, invoice_id)

\* Mutant of ExceedsOutstanding: the amount is not compared with the outstanding
\* amount.
ExceedsOutstanding_Never(payment_amount, outstanding_amount) == FALSE

\* Mutant of ExceedsOutstanding: the amount may pass the outstanding amount by
\* up to 12500.
ExceedsOutstanding_Margin(payment_amount, outstanding_amount) ==
    payment_amount > outstanding_amount + Dollars(12500)

\* process_payment, line 149: the request is answered with 400.
ExceedsOutstanding(payment_amount, outstanding_amount) ==
    payment_amount > outstanding_amount

\* Mutant of IsSettled: a remainder of exactly 0.01 does not settle the invoice.
IsSettled_Strict(new_outstanding) == new_outstanding < Cents(1)

\* process_payment, line 176
IsSettled(new_outstanding) == new_outstanding <= Cents(1)

\* Mutant of InvoiceAfterPayment: a partial payment stores the amount of this
\* payment as paid_amount, not the cumulative amount.
InvoiceAfterPayment_LastAmount(invoice, payment_amount, new_outstanding) ==
    IF IsSettled(new_outstanding)
    THEN [invoice EXCEPT !.status = "paid",
                         !.paid_date = now,
                         !.paid_amount = invoice.amount,
                         !.last_payment_date = now,
                         !.last_payment_amount = payment_amount]
    ELSE [invoice EXCEPT !.status = "partially_paid",
                         !.paid_amount = payment_amount,
                         !.last_payment_date = now,
                         !.last_payment_amount = payment_amount]

\* process_payment, lines 174-186: the invoice record after an accepted payment.
InvoiceAfterPayment(invoice, payment_amount, new_outstanding) ==
    IF IsSettled(new_outstanding)
    THEN [invoice EXCEPT !.status = "paid",
                         !.paid_date = now,
                         !.paid_amount = invoice.amount,
                         !.last_payment_date = now,
                         !.last_payment_amount = payment_amount]
    ELSE [invoice EXCEPT !.status = "partially_paid",
                         !.paid_amount = invoice.amount - new_outstanding,
                         !.last_payment_date = now,
                         !.last_payment_amount = payment_amount]

\* POST /api/invoices/<invoice_id>/payment
process_payment(invoice_id, payment_amount, payment_method) ==
    IF invoice_id \notin DOMAIN invoices
    THEN /\ response' = [service |-> "ERP", op |-> "process_payment", status |-> 404,
                         request |-> [invoice_id |-> invoice_id, amount |-> payment_amount],
                         body |-> [error |-> "Invoice not found"]]
         /\ UNCHANGED <<invoices, payments, uuids>>
    ELSE LET invoice            == invoices[invoice_id]
             outstanding_amount == OutstandingAmount(invoice_id)
             new_outstanding    == outstanding_amount - payment_amount
         IN  IF ExceedsOutstanding(payment_amount, outstanding_amount)
             THEN /\ response' = [service |-> "ERP", op |-> "process_payment", status |-> 400,
                                  request |-> [invoice_id |-> invoice_id,
                                               amount |-> payment_amount],
                                  body |-> [error |-> "Payment amount exceeds outstanding balance",
                                            outstanding_amount |-> outstanding_amount,
                                            payment_amount |-> payment_amount,
                                            overpayment |-> payment_amount - outstanding_amount]]
                  /\ UNCHANGED <<invoices, payments, uuids>>
             ELSE LET payment == [id |-> uuids + 1,
                                  invoice_id |-> invoice_id,
                                  customer_account |-> invoice.customer_account,
                                  amount |-> payment_amount,
                                  method |-> payment_method,
                                  timestamp |-> now,
                                  status |-> "completed",
                                  processed_by |-> "system",
                                  outstanding_before |-> outstanding_amount,
                                  outstanding_after |-> outstanding_amount - payment_amount]
                      updated == InvoiceAfterPayment(invoice, payment_amount, new_outstanding)
                  IN  /\ payments' = Append(payments, payment)
                      /\ uuids' = uuids + 1
                      /\ invoices' = [invoices EXCEPT ![invoice_id] = updated]
                      /\ response' = [service |-> "ERP", op |-> "process_payment", status |-> 200,
                                      request |-> [invoice_id |-> invoice_id,
                                                   amount |-> payment_amount],
                                      body |-> [payment |-> payment,
                                                invoice |-> updated,
                                                remaining_balance |-> new_outstanding]]

ProcessPayment ==
    /\ now < MaxErpRequests
    /\ \E invoice_id \in PaymentInvoiceIds, payment_amount \in PaymentAmounts :
            process_payment(invoice_id, payment_amount, "bank_transfer")
    /\ now' = now + 1
    /\ UNCHANGED <<purchase_orders, requests, crmVars, emailVars, harnessVars>>

\* The invoice ids and amounts that concurrent payment requests carry.
ConcurrentInvoiceIds == {"INV-2025-001", "INV-404"}
ConcurrentAmounts    == {Dollars(5000), Dollars(7500), Dollars(12500)}

\* process_payment, lines 132-155, on thread t: the invoice is looked up, the
\* outstanding amount is computed from the payment log and the amount is checked
\* against it.  A thread switch can follow.
CheckPayment(t) ==
    /\ requests[t].pc = "idle"
    /\ now < MaxErpRequests
    /\ \E invoice_id \in ConcurrentInvoiceIds, payment_amount \in ConcurrentAmounts :
          IF invoice_id \notin DOMAIN invoices
          THEN /\ response' = [service |-> "ERP", op |-> "process_payment", status |-> 404,
                               request |-> [invoice_id |-> invoice_id,
                                            amount |-> payment_amount],
                               body |-> [error |-> "Invoice not found"]]
               /\ UNCHANGED requests
          ELSE LET outstanding_amount == OutstandingAmount(invoice_id)
               IN  IF ExceedsOutstanding(payment_amount, outstanding_amount)
                   THEN /\ response' =
                               [service |-> "ERP", op |-> "process_payment", status |-> 400,
                                request |-> [invoice_id |-> invoice_id,
                                             amount |-> payment_amount],
                                body |-> [error |-> "Payment amount exceeds outstanding balance",
                                          outstanding_amount |-> outstanding_amount,
                                          payment_amount |-> payment_amount,
                                          overpayment |-> payment_amount - outstanding_amount]]
                        /\ UNCHANGED requests
                   ELSE /\ requests' = [requests EXCEPT ![t] =
                                           [pc |-> "checked", invoice_id |-> invoice_id,
                                            payment_amount |-> payment_amount,
                                            outstanding_amount |-> outstanding_amount]]
                        /\ UNCHANGED response
    /\ now' = now + 1
    /\ UNCHANGED <<invoices, payments, purchase_orders, uuids, crmVars, emailVars,
                   harnessVars>>

\* process_payment, lines 157-172, on thread t: the payment record is built from
\* the outstanding amount computed at the check and appended to the log.
AppendPayment(t) ==
    /\ requests[t].pc = "checked"
    /\ LET r       == requests[t]
           payment == [id |-> uuids + 1,
                       invoice_id |-> r.invoice_id,
                       customer_account |-> invoices[r.invoice_id].customer_account,
                       amount |-> r.payment_amount,
                       method |-> "bank_transfer",
                       timestamp |-> now,
                       status |-> "completed",
                       processed_by |-> "system",
                       outstanding_before |-> r.outstanding_amount,
                       outstanding_after |-> r.outstanding_amount - r.payment_amount]
       IN  /\ payments' = Append(payments, payment)
           /\ uuids' = uuids + 1
           /\ requests' = [requests EXCEPT ![t] =
                              [pc |-> "appended", invoice_id |-> r.invoice_id,
                               payment_amount |-> r.payment_amount,
                               outstanding_amount |-> r.outstanding_amount,
                               payment |-> payment]]
    /\ UNCHANGED <<invoices, purchase_orders, now, response, crmVars, emailVars,
                   harnessVars>>

\* process_payment, lines 174-193, on thread t: the invoice is updated from the
\* handler's own new_outstanding and the request is answered.
UpdateInvoice(t) ==
    /\ requests[t].pc = "appended"
    /\ LET r               == requests[t]
           new_outstanding == r.outstanding_amount - r.payment_amount
           updated == InvoiceAfterPayment(invoices[r.invoice_id], r.payment_amount,
                                          new_outstanding)
       IN  /\ invoices' = [invoices EXCEPT ![r.invoice_id] = updated]
           /\ response' = [service |-> "ERP", op |-> "process_payment", status |-> 200,
                           request |-> [invoice_id |-> r.invoice_id,
                                        amount |-> r.payment_amount],
                           body |-> [payment |-> r.payment,
                                     invoice |-> updated,
                                     remaining_balance |-> new_outstanding]]
    /\ requests' = [requests EXCEPT ![t] = Idle]
    /\ UNCHANGED <<payments, purchase_orders, now, uuids, crmVars, emailVars,
                   harnessVars>>

\* sum(i['amount'] for i in customer_invoices if <condition on i>) over a set of
\* invoice ids.
RECURSIVE SumAmounts(_)
SumAmounts(ids) ==
    IF ids = {} THEN 0
    ELSE LET id == CHOOSE x \in ids : TRUE
         IN  invoices[id].amount + SumAmounts(ids \ {id})

\* validate_transaction, line 264
CustomerInvoices(account_number) ==
    {id \in DOMAIN invoices : invoices[id].customer_account = account_number}

\* validate_transaction, line 265
ValidationOutstanding(account_number) ==
    SumAmounts({id \in CustomerInvoices(account_number) :
                    invoices[id].status \in {"pending", "overdue"}})

\* validate_transaction, line 283
OverdueInvoices(account_number) ==
    {id \in CustomerInvoices(account_number) : invoices[id].status = "overdue"}

\* Mutant of PaymentExceeds: an amount equal to the outstanding amount is flagged.
PaymentExceeds_Inclusive(transaction_type, transaction_amount, outstanding_amount) ==
    transaction_type = "payment" /\ transaction_amount >= outstanding_amount

\* Mutant of PaymentExceeds: the check tests for the harness's type name.
PaymentExceeds_CreditType(transaction_type, transaction_amount, outstanding_amount) ==
    transaction_type = "credit" /\ transaction_amount > outstanding_amount

\* validate_transaction, lines 279, 284, 288: the three checks, in source order.
PaymentExceeds(transaction_type, transaction_amount, outstanding_amount) ==
    transaction_type = "payment" /\ transaction_amount > outstanding_amount
HasOverdue(account_number) == OverdueInvoices(account_number) # {}
HighValueCustomer(outstanding_amount) == outstanding_amount > Dollars(50000)

\* Mutant of ValidationStatus: the three checks form an if/elif chain, the first
\* one that holds decides.
ValidationStatus_FirstMatch(account_number, transaction_amount, transaction_type) ==
    LET outstanding_amount == ValidationOutstanding(account_number)
    IN  IF PaymentExceeds(transaction_type, transaction_amount, outstanding_amount)
        THEN "warning"
        ELSE IF HasOverdue(account_number) THEN "attention_required"
        ELSE IF HighValueCustomer(outstanding_amount) THEN "high_value"
        ELSE "approved"

\* validate_transaction, lines 267-290: validation_status by sequential overwrite.
ValidationStatus(account_number, transaction_amount, transaction_type) ==
    LET outstanding_amount == ValidationOutstanding(account_number)
        s0 == "approved"
        s1 == IF PaymentExceeds(transaction_type, transaction_amount, outstanding_amount)
              THEN "warning" ELSE s0
        s2 == IF HasOverdue(account_number) THEN "attention_required" ELSE s1
        s3 == IF HighValueCustomer(outstanding_amount) THEN "high_value" ELSE s2
    IN  s3

\* Mutant of ValidationNotes: a payment above the outstanding amount is noted as
\* "overpayment".
ValidationNotes_OverpaymentNote(account_number, transaction_amount, transaction_type) ==
    LET outstanding_amount == ValidationOutstanding(account_number)
    IN  IF PaymentExceeds(transaction_type, transaction_amount, outstanding_amount)
        THEN <<"overpayment">> ELSE <<>>

\* validate_transaction, lines 274-290: the notes, appended in source order.
ValidationNotes(account_number, transaction_amount, transaction_type) ==
    LET outstanding_amount == ValidationOutstanding(account_number)
        n1 == IF PaymentExceeds(transaction_type, transaction_amount, outstanding_amount)
              THEN <<"Payment amount exceeds outstanding invoices">> ELSE <<>>
        n2 == IF HasOverdue(account_number)
              THEN <<"Customer has "
                     \o ToString(Cardinality(OverdueInvoices(account_number)))
                     \o " overdue invoices">>
              ELSE <<>>
        n3 == IF HighValueCustomer(outstanding_amount)
              THEN <<"High value customer - manual review recommended">> ELSE <<>>
    IN  n1 \o n2 \o n3

\* POST /api/financial/validate-transaction: the response.  It reads invoices and
\* writes nothing.
validate_transaction(account_number, transaction_amount, transaction_type) ==
    IF account_number = ""
    THEN [service |-> "ERP", op |-> "validate_transaction", status |-> 400,
          request |-> [account_number |-> account_number, amount |-> transaction_amount,
                       type |-> transaction_type],
          body |-> [error |-> "Account number required"]]
    ELSE [service |-> "ERP", op |-> "validate_transaction", status |-> 200,
          request |-> [account_number |-> account_number, amount |-> transaction_amount,
                       type |-> transaction_type],
          body |-> [account_number |-> account_number,
                    transaction_amount |-> transaction_amount,
                    transaction_type |-> transaction_type,
                    outstanding_invoices |-> ValidationOutstanding(account_number),
                    invoice_count |-> Cardinality(CustomerInvoices(account_number)),
                    validation_status |->
                        ValidationStatus(account_number, transaction_amount, transaction_type),
                    notes |->
                        ValidationNotes(account_number, transaction_amount, transaction_type),
                    timestamp |-> now]]

\* The accounts, amounts and types that validation requests carry.
ValidateAccounts == {"ACC-789123456", "ACC-456789123", "ACC-123456789", ""}
ValidateAmounts  == {Dollars(7500), Dollars(12500), Dollars(70000)}
ValidateTypes    == {"payment", "charge"}

\* Mutant of ValidationWrites: the validation puts the account's pending invoices
\* under review.
ValidationWrites_MarksInvoices(account_number) ==
    /\ invoices' = [id \in DOMAIN invoices |->
                       IF /\ invoices[id].customer_account = account_number
                          /\ invoices[id].status = "pending"
                       THEN [invoices[id] EXCEPT !.status = "under_review"]
                       ELSE invoices[id]]
    /\ UNCHANGED <<payments, purchase_orders, uuids>>

\* validate_transaction, lines 252-292: the handler assigns to none of the stores.
ValidationWrites(account_number) ==
    UNCHANGED <<invoices, payments, purchase_orders, uuids>>

\* POST /api/financial/validate-transaction
ValidateRequest ==
    /\ \E account_number \in ValidateAccounts, transaction_amount \in ValidateAmounts,
          transaction_type \in ValidateTypes :
            /\ response' = validate_transaction(account_number, transaction_amount,
                                                transaction_type)
            /\ ValidationWrites(account_number)
    /\ UNCHANGED <<now, requests, crmVars, emailVars, harnessVars>>

\* GET /api/invoices/by-account/<account_number>: the response.
get_invoices_by_account(account_number) ==
    [service |-> "ERP", op |-> "get_invoices_by_account", status |-> 200,
     body |-> [invoices |-> CustomerInvoices(account_number),
               total |-> Cardinality(CustomerInvoices(account_number)),
               account_number |-> account_number]]

-----------------------------------------------------------------------------
(* mock_email.py *)

\* email_templates: for each template the placeholders of its subject and of its
\* body ("template").
email_templates ==
    [payment_mismatch |->
        [subject |-> {},
         template |-> {"transaction_id", "account_number", "amount", "transaction_date",
                       "reference", "issue_description", "customer_name", "customer_email",
                       "customer_status", "outstanding_invoices", "action_required"}],
     overpayment_alert |->
        [subject |-> {"customer_name"},
         template |-> {"customer_name", "account_number", "payment_amount",
                       "outstanding_amount", "overpayment_amount", "customer_email"}],
     unknown_customer |->
        [subject |-> {},
         template |-> {"transaction_id", "account_number", "amount", "transaction_date",
                       "description"}],
     high_value_alert |->
        [subject |-> {"amount"},
         template |-> {"customer_name", "account_number", "amount", "transaction_type",
                       "transaction_date", "customer_status", "previous_balance",
                       "new_balance", "threshold"}],
     suspended_customer_payment |->
        [subject |-> {"customer_name"},
         template |-> {"customer_name", "account_number", "amount", "customer_email"}]]

\* str.format(**template_data) raises KeyError when a placeholder has no value.
FormatFails(placeholders, template_data) ==
    \E f \in placeholders : f \notin DOMAIN template_data

\* str.format(**template_data): the text is determined by the template and by the
\* values substituted for its placeholders.
Format(template_name, part, template_data) ==
    [text_of |-> template_name, part |-> part,
     values |-> [f \in email_templates[template_name][part] |-> template_data[f]]]

\* send_template_email, lines 188-198: the error the request is answered with,
\* "" when there is none.
TemplateError(template_name, template_data) ==
    IF template_name \notin DOMAIN email_templates
    THEN "Template not found"
    ELSE IF \/ FormatFails(email_templates[template_name].subject, template_data)
            \/ FormatFails(email_templates[template_name].template, template_data)
         THEN "Missing template data"
         ELSE ""

\* send_template_email, lines 200-213
TemplateEmail(template_name, template_data) ==
    [id |-> uuids + 1,
     to |-> "finance@company.com",
     subject |-> Format(template_name, "subject", template_data),
     body |-> Format(template_name, "template", template_data),
     priority |-> "normal",
     category |-> template_name,
     template_used |-> template_name,
     timestamp |-> now,
     status |-> "sent",
     read |-> FALSE,
     read_timestamp |-> None,
     metadata |-> template_data]

\* POST /api/send-template-email: the response.
send_template_email_response(template_name, template_data) ==
    IF TemplateError(template_name, template_data) # ""
    THEN [service |-> "Email", op |-> "send_template_email", status |-> 400,
          request |-> [template |-> template_name, data |-> template_data],
          body |-> [error |-> TemplateError(template_name, template_data)]]
    ELSE [service |-> "Email", op |-> "send_template_email", status |-> 200,
          request |-> [template |-> template_name, data |-> template_data],
          body |-> [message |-> "Template email sent successfully",
                    email_id |-> uuids + 1,
                    template |-> template_name,
                    timestamp |-> now]]

\* Mutant of send_template_email: a request answered with an error is kept in
\* the log as a failed email.
send_template_email_LogsFailures(template_name, template_data) ==
    IF TemplateError(template_name, template_data) # ""
    THEN /\ sent_emails' = Append(sent_emails,
                                  [id |-> uuids + 1, category |-> template_name,
                                   status |-> "failed", read |-> FALSE])
         /\ uuids' = uuids + 1
    ELSE /\ sent_emails' = Append(sent_emails, TemplateEmail(template_name, template_data))
         /\ uuids' = uuids + 1

\* POST /api/send-template-email: the effect on the email log.
send_template_email(template_name, template_data) ==
    IF TemplateError(template_name, template_data) # ""
    THEN UNCHANGED <<sent_emails, uuids>>
    ELSE /\ sent_emails' = Append(sent_emails, TemplateEmail(template_name, template_data))
         /\ uuids' = uuids + 1

\* The template names and the data that send-template-email requests carry: a
\* name of each template, an unknown name, and data with twelve, four and one of
\* the fields.
TemplateNames == DOMAIN email_templates \cup {"no_such_template"}
SampleData ==
    [transaction_id |-> "TXN-001", account_number |-> "ACC-789123456",
     amount |-> "12500.0", transaction_date |-> "2025-09-24T10:30:00Z",
     reference |-> "INV-2025-001", customer_name |-> "Test Customer",
     customer_email |-> "test@example.com", customer_status |-> "active",
     issue_description |-> "", action_required |-> "",
     outstanding_invoices |-> "See ERP system for details",
     description |-> "Payment from Tech Solutions Inc"]
Restrict(f, keys) == [k \in keys |-> f[k]]
TemplateDataSets ==
    {SampleData,
     Restrict(SampleData, {"customer_name", "account_number", "amount", "customer_email"}),
     Restrict(SampleData, {"customer_name"})}

\* A Python dict is a function on its keys; {} is the function on no key.
EmptyDict == [k \in {} |-> 0]

\* The categories that send-email requests carry ("" when the request has none),
\* the ids that requests about one email carry, and the filters of listings.
SendCategories == {"", "overpayment"}
EmailIds       == {1, 2, 404}
ListCategories == {"", "general"}

\* POST /api/send-email
send_email(category) ==
    LET email_data == [id |-> uuids + 1,
                       to |-> "finance@company.com",
                       subject |-> "Payment Processing Notification",
                       body |-> "",
                       priority |-> "normal",
                       category |-> IF category = "" THEN "general" ELSE category,
                       timestamp |-> now,
                       status |-> "sent",
                       read |-> FALSE,
                       read_timestamp |-> None,
                       metadata |-> EmptyDict]
    IN  /\ sent_emails' = Append(sent_emails, email_data)
        /\ uuids' = uuids + 1
        /\ response' = [service |-> "Email", op |-> "send_email", status |-> 200,
                        request |-> [category |-> category],
                        body |-> [message |-> "Email sent successfully",
                                  email_id |-> email_data.id,
                                  timestamp |-> email_data.timestamp]]

SendEmail ==
    /\ now < MaxEmailRequests
    /\ \E category \in SendCategories : send_email(category)
    /\ now' = now + 1
    /\ UNCHANGED <<notification_rules, crmVars, erpVars, harnessVars>>

\* list.sort(key=timestamp, reverse=True) on a list in log order: timestamps
\* grow along the log, so the result is the list reversed.
Reverse(seq) == [i \in 1..Len(seq) |-> seq[Len(seq) + 1 - i]]

\* Mutant of LogAfterListing: the listing sorts the log itself, not a copy.
LogAfterListing_SortedInPlace == Reverse(sent_emails)

\* get_emails, line 231: the handler works on a copy, the log stays as it is.
LogAfterListing == sent_emails

\* GET /api/emails?category=&unread=: the response.
get_emails(category, unread_only) ==
    LET InCategory(e) == category = "" \/ e.category = category
        Unread(e)     == ~unread_only \/ ~e.read
        IsUnread(e)   == ~e.read
        filtered_emails ==
            Reverse(SelectSeq(SelectSeq(sent_emails, InCategory), Unread))
    IN  [service |-> "Email", op |-> "get_emails", status |-> 200,
         request |-> [category |-> category, unread |-> unread_only],
         body |-> [emails |-> filtered_emails,
                   total |-> Len(filtered_emails),
                   unread_count |-> Len(SelectSeq(sent_emails, IsUnread))]]

GetEmails ==
    /\ \E category \in ListCategories, unread_only \in BOOLEAN :
            response' = get_emails(category, unread_only)
    /\ sent_emails' = LogAfterListing
    /\ UNCHANGED <<notification_rules, crmVars, erpVars, harnessVars, now, uuids>>

\* next((e for e in sent_emails if e['id'] == email_id), None): the position of
\* the email in the log, 0 for None.
FindEmail(email_id) ==
    IF \E i \in DOMAIN sent_emails : sent_emails[i].id = email_id
    THEN CHOOSE i \in DOMAIN sent_emails :
             /\ sent_emails[i].id = email_id
             /\ \A j \in 1..(i - 1) : sent_emails[j].id # email_id
    ELSE 0

\* GET /api/emails/<email_id>: the response.
get_email(email_id) ==
    IF FindEmail(email_id) = 0
    THEN [service |-> "Email", op |-> "get_email", status |-> 404,
          request |-> [email_id |-> email_id],
          body |-> [error |-> "Email not found"]]
    ELSE [service |-> "Email", op |-> "get_email", status |-> 200,
          request |-> [email_id |-> email_id],
          body |-> sent_emails[FindEmail(email_id)]]

GetEmail ==
    /\ \E email_id \in EmailIds : response' = get_email(email_id)
    /\ UNCHANGED <<crmVars, erpVars, emailVars, harnessVars, now, uuids>>

\* POST /api/emails/<email_id>/mark-read
mark_email_read(email_id) ==
    IF FindEmail(email_id) = 0
    THEN /\ response' = [service |-> "Email", op |-> "mark_email_read", status |-> 404,
                         request |-> [email_id |-> email_id],
                         body |-> [error |-> "Email not found"]]
         /\ UNCHANGED sent_emails
    ELSE /\ sent_emails' = [sent_emails EXCEPT ![FindEmail(email_id)].read = TRUE,
                                               ![FindEmail(email_id)].read_timestamp = now]
         /\ response' = [service |-> "Email", op |-> "mark_email_read", status |-> 200,
                         request |-> [email_id |-> email_id],
                         body |-> [message |-> "Email marked as read",
                                   email_id |-> email_id]]

MarkEmailRead ==
    /\ now < MaxEmailRequests
    /\ \E email_id \in EmailIds : mark_email_read(email_id)
    /\ now' = now + 1
    /\ UNCHANGED <<notification_rules, uuids, crmVars, erpVars, harnessVars>>

\* POST /api/notification-rules
create_notification_rule(name) ==
    LET rule == [id |-> uuids + 1,
                 name |-> name,
                 condition |-> EmptyDict,
                 template |-> "payment_mismatch",
                 recipients |-> <<"finance@company.com">>,
                 priority |-> "normal",
                 active |-> TRUE,
                 created_date |-> now]
    IN  /\ notification_rules' = Append(notification_rules, rule)
        /\ uuids' = uuids + 1
        /\ response' = [service |-> "Email", op |-> "create_notification_rule",
                        status |-> 200, request |-> [name |-> name],
                        body |-> [message |-> "Notification rule created",
                                  rule_id |-> rule.id]]

CreateNotificationRule ==
    /\ now < MaxEmailRequests
    /\ create_notification_rule("")
    /\ now' = now + 1
    /\ UNCHANGED <<sent_emails, crmVars, erpVars, harnessVars>>

\* dict.get(key, default)
Get(dict, key, default) == IF key \in DOMAIN dict THEN dict[key] ELSE default

\* The transactions, customers and validation results that evaluate-notification
\* requests carry.
EvalTransactions ==
    {EmptyDict,
     [amount |-> Dollars(50000), account_number |-> "ACC-789123456"],
     [amount |-> Dollars(50000) + 1, account_number |-> "ACC-789123456"]}
EvalCustomers ==
    {EmptyDict, [name |-> "Tech Solutions Inc"],
     [name |-> "Delinquent Corp", status |-> "suspended"]}
EvalValidationResults ==
    {EmptyDict,
     [validation_status |-> "warning",
      notes |-> <<"Payment amount exceeds outstanding invoices">>],
     [validation_status |-> "attention_required",
      notes |-> <<"Customer has 1 overdue invoices", "overpayment">>],
     [validation_status |-> "high_value",
      notes |-> <<"overpayment", "High value customer - manual review recommended">>]}

\* Mutant of NotificationsToSend: the rules form an if/elif chain, only the first
\* one that holds is returned.
NotificationsToSend_FirstMatch(txn, customer, validation_result) ==
    LET amount          == Get(txn, "amount", 0)
        customer_status == Get(customer, "status", "unknown")
    IN  IF amount > Dollars(50000)
        THEN <<[template |-> "high_value_alert", priority |-> "high",
                reason |-> "Transaction amount $" \o ToString(amount)
                               \o " exceeds threshold"]>>
        ELSE IF customer_status = "suspended"
        THEN <<[template |-> "suspended_customer_payment", priority |-> "high",
                reason |-> "Payment from suspended customer account"]>>
        ELSE IF DOMAIN customer = {}
        THEN <<[template |-> "unknown_customer", priority |-> "urgent",
                reason |-> "Payment from unknown customer account"]>>
        ELSE IF /\ DOMAIN validation_result # {}
                /\ Get(validation_result, "validation_status", "None")
                       \in {"warning", "attention_required"}
        THEN <<[template |-> "payment_mismatch", priority |-> "normal",
                reason |-> "Payment validation issues detected"]>>
        ELSE IF /\ DOMAIN validation_result # {}
                /\ \E i \in DOMAIN Get(validation_result, "notes", <<>>) :
                       Get(validation_result, "notes", <<>>)[i] = "overpayment"
        THEN <<[template |-> "overpayment_alert", priority |-> "normal",
                reason |-> "Customer overpayment detected"]>>
        ELSE <<>>

\* evaluate_notification, lines 309-353: notifications_to_send, each rule that
\* holds appended in source order.  The amount in the first reason is in
\* thousandths.
NotificationsToSend(txn, customer, validation_result) ==
    LET amount          == Get(txn, "amount", 0)
        customer_status == Get(customer, "status", "unknown")
        n1 == IF amount > Dollars(50000)
              THEN <<[template |-> "high_value_alert", priority |-> "high",
                      reason |-> "Transaction amount $" \o ToString(amount)
                                     \o " exceeds threshold"]>>
              ELSE <<>>
        n2 == IF customer_status = "suspended"
              THEN <<[template |-> "suspended_customer_payment", priority |-> "high",
                      reason |-> "Payment from suspended customer account"]>>
              ELSE <<>>
        n3 == IF DOMAIN customer = {}
              THEN <<[template |-> "unknown_customer", priority |-> "urgent",
                      reason |-> "Payment from unknown customer account"]>>
              ELSE <<>>
        n4 == IF /\ DOMAIN validation_result # {}
                 /\ Get(validation_result, "validation_status", "None")
                        \in {"warning", "attention_required"}
              THEN <<[template |-> "payment_mismatch", priority |-> "normal",
                      reason |-> "Payment validation issues detected"]>>
              ELSE <<>>
        n5 == IF /\ DOMAIN validation_result # {}
                 /\ \E i \in DOMAIN Get(validation_result, "notes", <<>>) :
                        Get(validation_result, "notes", <<>>)[i] = "overpayment"
              THEN <<[template |-> "overpayment_alert", priority |-> "normal",
                      reason |-> "Customer overpayment detected"]>>
              ELSE <<>>
    IN  n1 \o n2 \o n3 \o n4 \o n5

\* POST /api/evaluate-notification: the response.
evaluate_notification(txn, customer, validation_result) ==
    [service |-> "Email", op |-> "evaluate_notification", status |-> 200,
     request |-> [transaction |-> txn, customer |-> customer,
                  validation_result |-> validation_result],
     body |-> [should_notify |->
                   Len(NotificationsToSend(txn, customer, validation_result)) > 0,
               notifications |-> NotificationsToSend(txn, customer, validation_result),
               evaluation_timestamp |-> now]]

EvaluateNotification ==
    /\ \E txn \in EvalTransactions, customer \in EvalCustomers,
          validation_result \in EvalValidationResults :
            response' = evaluate_notification(txn, customer, validation_result)
    /\ UNCHANGED <<crmVars, erpVars, emailVars, harnessVars, now, uuids>>

\* POST /api/evaluate-notification with the body of the validation just
\* answered as validation_result, the validated amount and account as
\* transaction, and the account's customer record ({} when there is none).
EvaluateValidation ==
    /\ response.op = "validate_transaction"
    /\ response.status = 200
    /\ LET account_number == response.body.account_number
           matching == {id \in DOMAIN customers :
                           customers[id].account_number = account_number}
           customer == IF matching = {} THEN EmptyDict
                       ELSE customers[CHOOSE id \in matching : TRUE]
           txn      == [amount |-> response.body.transaction_amount,
                        account_number |-> account_number]
       IN  response' = evaluate_notification(txn, customer, response.body)
    /\ UNCHANGED <<crmVars, erpVars, emailVars, harnessVars, now, uuids>>

SendTemplateEmail ==
    /\ now < MaxEmailRequests
    /\ \E template_name \in TemplateNames, template_data \in TemplateDataSets :
            /\ send_template_email(template_name, template_data)
            /\ response' = send_template_email_response(template_name, template_data)
    /\ now' = now + 1
    /\ UNCHANGED <<notification_rules, crmVars, erpVars, harnessVars>>

-----------------------------------------------------------------------------
(* test_cases.py *)

\* The ports the services listen on (app.run(port=...)).
CrmPort   == 5001
ErpPort   == 5002
EmailPort == 5003

\* The ports of BusinessSystemTestCases.crm_base_url, erp_base_url, email_base_url.
CrmBaseUrlPort   == 5001
ErpBaseUrlPort   == 5002
EmailBaseUrlPort == 5000

\* The service that listens on a port, "none" when none of the three does.
ServiceAt(port) ==
    CASE port = CrmPort   -> "CRM"
      [] port = ErpPort   -> "ERP"
      [] port = EmailPort -> "Email"
      [] OTHER            -> "none"

\* requests.get / requests.post to base_url_port reaches the service it is meant
\* for when that service listens on the port and is up; otherwise the call raises.
Reaches(base_url_port, service, up) == up /\ ServiceAt(base_url_port) = service

\* A port of none of the three services may be held by a process foreign to this
\* repository.  A request to such a port raises when nobody listens ("none"),
\* and is otherwise answered by the foreign process: with status 200 and a JSON
\* body, with status 200 and a body that is not JSON, or with status 404.
Services       == {"CRM", "ERP", "Email"}
ForeignAnswers == {"none", "200 json", "200 other", "404"}
NobodyListening == [services |-> {}, foreign |-> "none"]

\* check_services_health, lines 29-39: results[service] for the service whose
\* health URL is on base_url_port.  Whoever answers 200 on the port counts.
ServiceHealth(base_url_port, env) ==
    IF ServiceAt(base_url_port) = "none"
    THEN env.foreign \in {"200 json", "200 other"}
    ELSE ServiceAt(base_url_port) \in env.services

\* check_services_health, line 41: all(results.values())
check_services_health(env) ==
    /\ ServiceHealth(CrmBaseUrlPort, env)
    /\ ServiceHealth(ErpBaseUrlPort, env)
    /\ ServiceHealth(EmailBaseUrlPort, env)

Transaction(transaction_id, account_number, amount, type, description, timestamp, reference, expected_outcome) ==
    [transaction_id |-> transaction_id, account_number |-> account_number,
     amount |-> amount, type |-> type, description |-> description,
     timestamp |-> timestamp, reference |-> reference,
     expected_outcome |-> expected_outcome]

TEST_TRANSACTIONS ==
    [perfect_match |->
        Transaction("TXN-PERFECT-001", "ACC-789123456", Dollars(12500), "credit",
                    "Payment received - Software licensing", "2025-06-10T09:15:00Z",
                    "INV-2025-001", "auto_process"),
     partial_payment |->
        Transaction("TXN-PARTIAL-002", "ACC-456789123", Dollars(5000), "credit",
                    "Partial payment - Consulting services", "2025-06-10T14:30:00Z",
                    "INV-2025-002", "review_and_process"),
     unknown_customer |->
        Transaction("TXN-UNKNOWN-003", "ACC-999888777", Dollars(15000), "credit",
                    "Unknown payment source", "2025-06-10T16:45:00Z",
                    "UNKNOWN_REF", "manual_review"),
     high_value_payment |->
        Transaction("TXN-HIGHVAL-004", "ACC-123456789", Dollars(75000), "credit",
                    "Large payment - requires review", "2025-06-10T17:20:00Z",
                    "BULK-PAYMENT-Q2", "manual_review"),
     overpayment |->
        Transaction("TXN-OVERPAY-005", "ACC-789123456", Dollars(25000), "credit",
                    "Overpayment scenario", "2025-06-10T18:00:00Z",
                    "OVERPAY_TEST", "review_and_process"),
     suspended_customer |->
        Transaction("TXN-SUSPENDED-006", "ACC-123456789", Dollars(10000), "credit",
                    "Payment from suspended account", "2025-06-10T19:15:00Z",
                    "SUSPENDED_PAY", "hold"),
     zero_amount |->
        Transaction("TXN-ZERO-010", "ACC-789123456", 0, "credit",
                    "Zero amount transaction", "2025-06-10T23:15:00Z",
                    "ZERO_TEST", "error")]

\* Further transactions run_single_test is given: every account of
\* TEST_TRANSACTIONS with amounts on both sides of each threshold.
OtherAccounts == {"ACC-789123456", "ACC-456789123", "ACC-123456789", "ACC-999888777"}
OtherAmounts  == {0 - Dollars(100), Dollars(5000), Dollars(50000), Dollars(50000) + 1}
OtherTransactions ==
    {Transaction("TXN-OTHER", a, m, t, "Other transaction", "2025-06-11T00:00:00Z",
                 "OTHER_REF", "")
        : a \in OtherAccounts, m \in OtherAmounts, t \in {"credit", "debit"}}

TestTransactions ==
    {TEST_TRANSACTIONS[n] : n \in DOMAIN TEST_TRANSACTIONS} \cup OtherTransactions

\* check_customer_exists
check_customer_exists(account_number, up) ==
    IF Reaches(CrmBaseUrlPort, "CRM", up)
    THEN LET r == get_customer_by_account(account_number)
         IN  IF r.status = 200
             THEN [step |-> "customer_lookup", success |-> TRUE, data |-> r.body,
                   error |-> "None"]
             ELSE [step |-> "customer_lookup", success |-> FALSE, data |-> NoData,
                   error |-> "Customer not found"]
    ELSE [step |-> "customer_lookup", success |-> FALSE, data |-> NoData,
          error |-> "CRM API Error"]

\* Mutant of get_customer_invoices: a call that raised is reported as a success.
get_customer_invoices_SuccessOnError(account_number, up) ==
    IF Reaches(ErpBaseUrlPort, "ERP", up)
    THEN [step |-> "invoice_lookup", success |-> TRUE,
          data |-> get_invoices_by_account(account_number).body, error |-> "None"]
    ELSE [step |-> "invoice_lookup", success |-> TRUE, data |-> NoData,
          error |-> "ERP API Error"]

\* get_customer_invoices
get_customer_invoices(account_number, up) ==
    IF Reaches(ErpBaseUrlPort, "ERP", up)
    THEN [step |-> "invoice_lookup", success |-> TRUE,
          data |-> get_invoices_by_account(account_number).body, error |-> "None"]
    ELSE [step |-> "invoice_lookup", success |-> FALSE, data |-> NoData,
          error |-> "ERP API Error"]

\* validate_transaction (the harness step), lines 269-297
validate_transaction_step(txn, up) ==
    IF Reaches(ErpBaseUrlPort, "ERP", up)
    THEN LET r == validate_transaction(txn.account_number, txn.amount,
                                       IF txn.type = "credit" THEN "payment" ELSE "charge")
         IN  IF r.status = 200
             THEN [step |-> "transaction_validation", success |-> TRUE, data |-> r.body,
                   error |-> "None"]
             ELSE [step |-> "transaction_validation", success |-> FALSE, data |-> NoData,
                   error |-> "Validation failed"]
    ELSE [step |-> "transaction_validation", success |-> FALSE, data |-> NoData,
          error |-> "Validation API Error"]

\* The decision step a rule of make_decision returns.  Confidence is in hundredths.
Decision(action, confidence, reasons, next_steps) ==
    [step |-> "decision_making", success |-> TRUE, action |-> action,
     confidence |-> confidence, reasons |-> reasons, next_steps |-> next_steps]

\* Mutant of DecideOnValidation: the final else branch is missing, the action
\* stays "unknown".
DecideOnValidation_NoElse(validation_step) ==
    IF validation_step.success
    THEN LET validation == validation_step.data
         IN  IF validation.validation_status = "approved"
             THEN Decision("auto_process", 95, <<"All validations passed">>,
                           <<"Process payment automatically">>)
             ELSE IF validation.validation_status = "warning"
                  THEN Decision("review_and_process", 70, validation.notes,
                                <<"Review payment amount vs outstanding invoices">>)
                  ELSE Decision("unknown", 0, <<>>, <<>>)
    ELSE Decision("manual_review", 20, <<"Unable to validate transaction">>,
                  <<"Manual validation required">>)

\* make_decision, lines 344-366: the dispatch on the validation result.
DecideOnValidation(validation_step) ==
    IF validation_step.success
    THEN LET validation == validation_step.data
         IN  IF validation.validation_status = "approved"
             THEN Decision("auto_process", 95, <<"All validations passed">>,
                           <<"Process payment automatically">>)
             ELSE IF validation.validation_status = "warning"
                  THEN Decision("review_and_process", 70, validation.notes,
                                <<"Review payment amount vs outstanding invoices">>)
                  ELSE Decision("manual_review", 30, validation.notes,
                                <<"Manual review required">>)
    ELSE Decision("manual_review", 20, <<"Unable to validate transaction">>,
                  <<"Manual validation required">>)

\* Mutant of make_decision: the amount is checked before the customer lookup.
make_decision_AmountFirst(txn, customer_step, invoices_step, validation_step) ==
    IF txn.amount <= 0
    THEN Decision("error", 100, <<"Invalid transaction amount">>,
                  <<"Reject transaction">>)
    ELSE IF ~customer_step.success
    THEN Decision("manual_review", 0, <<"Customer not found in CRM">>,
                  <<"Research customer or return payment">>)
    ELSE IF customer_step.data.status = "suspended"
    THEN Decision("hold", 90, <<"Customer account is suspended">>,
                  <<"Contact customer service team">>)
    ELSE IF txn.amount > Dollars(50000)
    THEN Decision("manual_review", 30, <<"High value payment requires manual approval">>,
                  <<"Manager approval required">>)
    ELSE DecideOnValidation(validation_step)

\* Mutant of make_decision: the high-value check precedes the suspended check.
make_decision_HighValueFirst(txn, customer_step, invoices_step, validation_step) ==
    IF ~customer_step.success
    THEN Decision("manual_review", 0, <<"Customer not found in CRM">>,
                  <<"Research customer or return payment">>)
    ELSE IF txn.amount > Dollars(50000)
    THEN Decision("manual_review", 30, <<"High value payment requires manual approval">>,
                  <<"Manager approval required">>)
    ELSE IF customer_step.data.status = "suspended"
    THEN Decision("hold", 90, <<"Customer account is suspended">>,
                  <<"Contact customer service team">>)
    ELSE IF txn.amount <= 0
    THEN Decision("error", 100, <<"Invalid transaction amount">>,
                  <<"Reject transaction">>)
    ELSE DecideOnValidation(validation_step)

\* Mutant of make_decision: only negative amounts are rejected.
make_decision_ZeroAllowed(txn, customer_step, invoices_step, validation_step) ==
    IF ~customer_step.success
    THEN Decision("manual_review", 0, <<"Customer not found in CRM">>,
                  <<"Research customer or return payment">>)
    ELSE IF customer_step.data.status = "suspended"
    THEN Decision("hold", 90, <<"Customer account is suspended">>,
                  <<"Contact customer service team">>)
    ELSE IF txn.amount < 0
    THEN Decision("error", 100, <<"Invalid transaction amount">>,
                  <<"Reject transaction">>)
    ELSE IF txn.amount > Dollars(50000)
    THEN Decision("manual_review", 30, <<"High value payment requires manual approval">>,
                  <<"Manager approval required">>)
    ELSE DecideOnValidation(validation_step)

\* make_decision, lines 299-368
make_decision(txn, customer_step, invoices_step, validation_step) ==
    IF ~customer_step.success
    THEN Decision("manual_review", 0, <<"Customer not found in CRM">>,
                  <<"Research customer or return payment">>)
    ELSE IF customer_step.data.status = "suspended"
    THEN Decision("hold", 90, <<"Customer account is suspended">>,
                  <<"Contact customer service team">>)
    ELSE IF txn.amount <= 0
    THEN Decision("error", 100, <<"Invalid transaction amount">>,
                  <<"Reject transaction">>)
    ELSE IF txn.amount > Dollars(50000)
    THEN Decision("manual_review", 30, <<"High value payment requires manual approval">>,
                  <<"Manager approval required">>)
    ELSE DecideOnValidation(validation_step)

\* send_notifications, lines 381-389: template_map.get(action), "None" for None.
template_map(action) ==
    CASE action = "manual_review"      -> "unknown_customer"
      [] action = "hold"               -> "suspended_customer_payment"
      [] action = "review_and_process" -> "payment_mismatch"
      [] action = "auto_process"       -> "None"
      [] action = "error"              -> "payment_mismatch"
      [] OTHER                         -> "None"

\* "; ".join(strings)
RECURSIVE Join(_)
Join(strings) ==
    IF strings = <<>> THEN ""
    ELSE IF Len(strings) = 1 THEN Head(strings)
    ELSE Head(strings) \o "; " \o Join(Tail(strings))

\* send_notifications, lines 395-408: payload["data"]
NotificationData(txn, decision_step) ==
    [transaction_id |-> txn.transaction_id,
     account_number |-> txn.account_number,
     amount |-> ToString(txn.amount),
     transaction_date |-> txn.timestamp,
     reference |-> txn.reference,
     customer_name |-> "Test Customer",
     customer_email |-> "test@example.com",
     customer_status |-> "active",
     issue_description |-> Join(decision_step.reasons),
     action_required |-> Join(decision_step.next_steps),
     outstanding_invoices |-> "See ERP system for details",
     description |-> txn.description]

\* send_notifications, lines 370-423: the step it returns.
send_notifications(txn, decision_step, up, foreign) ==
    LET template == template_map(decision_step.action)
    IN  IF template # "None"
        THEN IF Reaches(EmailBaseUrlPort, "Email", up)
             THEN LET r == send_template_email_response(
                               template, NotificationData(txn, decision_step))
                  IN  IF r.status = 200
                      THEN [step |-> "notification", success |-> TRUE, data |-> r.body,
                            error |-> "None"]
                      ELSE [step |-> "notification", success |-> FALSE, data |-> NoData,
                            error |-> "Email failed"]
             ELSE IF ServiceAt(EmailBaseUrlPort) = "none" /\ foreign # "none"
             THEN CASE foreign = "200 json" ->
                         [step |-> "notification", success |-> TRUE,
                          data |-> [foreign |-> TRUE], error |-> "None"]
                    [] foreign = "200 other" ->
                         \* line 411 has set success, then response.json() raises
                         [step |-> "notification", success |-> TRUE, data |-> NoData,
                          error |-> "Email API Error: JSONDecodeError"]
                    [] OTHER ->
                         [step |-> "notification", success |-> FALSE, data |-> NoData,
                          error |-> "Email failed"]
             ELSE [step |-> "notification", success |-> FALSE, data |-> NoData,
                   error |-> "Email API Error"]
        ELSE [step |-> "notification", success |-> TRUE,
              data |-> [message |-> "No notification required"], error |-> "None"]

\* run_single_test, lines 177-188
StartTest ==
    /\ pc \in {"idle", "done"}
    /\ \E txn \in TestTransactions : transaction' = txn
    /\ steps' = <<>>
    /\ actual_outcome' = "None"
    /\ pc' = "customer_lookup"
    /\ UNCHANGED <<crmVars, erpVars, emailVars, now, uuids, response, runVars>>

\* run_single_test, lines 191-193
CheckCustomerExists ==
    /\ pc = "customer_lookup"
    /\ \E up \in BOOLEAN :
          steps' = Append(steps, check_customer_exists(transaction.account_number, up))
    /\ pc' = "invoice_lookup"
    /\ UNCHANGED <<crmVars, erpVars, emailVars, now, uuids, response,
                   transaction, actual_outcome, runVars>>

\* run_single_test, lines 195-197
GetCustomerInvoices ==
    /\ pc = "invoice_lookup"
    /\ \E up \in BOOLEAN :
          steps' = Append(steps, get_customer_invoices(transaction.account_number, up))
    /\ pc' = "transaction_validation"
    /\ UNCHANGED <<crmVars, erpVars, emailVars, now, uuids, response,
                   transaction, actual_outcome, runVars>>

\* run_single_test, lines 199-201
ValidateTransaction ==
    /\ pc = "transaction_validation"
    /\ \E up \in BOOLEAN :
          steps' = Append(steps, validate_transaction_step(transaction, up))
    /\ pc' = "decision_making"
    /\ UNCHANGED <<crmVars, erpVars, emailVars, now, uuids, response,
                   transaction, actual_outcome, runVars>>

\* run_single_test, lines 203-206
MakeDecision ==
    /\ pc = "decision_making"
    /\ LET decision_step == make_decision(transaction, steps[1], steps[2], steps[3])
       IN  /\ steps' = Append(steps, decision_step)
           /\ actual_outcome' = decision_step.action
    /\ pc' = "notification"
    /\ UNCHANGED <<crmVars, erpVars, emailVars, now, uuids, response, transaction,
                   runVars>>

\* run_single_test, lines 208-219
SendNotifications ==
    /\ pc = "notification"
    /\ \E up \in BOOLEAN, foreign \in ForeignAnswers :
          /\ steps' = Append(steps, send_notifications(transaction, steps[4], up, foreign))
          /\ IF /\ template_map(steps[4].action) # "None"
                /\ Reaches(EmailBaseUrlPort, "Email", up)
             THEN /\ send_template_email(template_map(steps[4].action),
                                         NotificationData(transaction, steps[4]))
                  /\ response' = send_template_email_response(
                                     template_map(steps[4].action),
                                     NotificationData(transaction, steps[4]))
                  /\ now' = now + 1
             ELSE UNCHANGED <<sent_emails, uuids, response, now>>
    /\ pc' = "done"
    /\ UNCHANGED <<notification_rules, crmVars, erpVars, transaction, actual_outcome,
                   runVars>>

\* run_single_test, line 213: result["success"]
TestSuccess == actual_outcome = transaction.expected_outcome

\* The payments the operator of the harness applies between two tests.
HarnessInvoiceIds     == {"INV-2025-001", "INV-2025-002"}
HarnessPaymentAmounts == {Dollars(8750), Dollars(12500)}

PaymentBetweenTests ==
    /\ pc \in {"idle", "done"}
    /\ now < MaxHarnessPayments
    /\ \E invoice_id \in HarnessInvoiceIds, payment_amount \in HarnessPaymentAmounts :
            process_payment(invoice_id, payment_amount, "bank_transfer")
    /\ now' = now + 1
    /\ UNCHANGED <<purchase_orders, requests, crmVars, emailVars, harnessVars>>

-----------------------------------------------------------------------------
(* Initial state: the state after the three modules are loaded and a
   TransactionTestRunner is constructed. *)

NoTransaction == Transaction("", "", 0, "", "", "", "", "")

Init ==
    /\ customers = InitialCustomers
    /\ transactions = <<>>
    /\ invoices = InitialInvoices
    /\ payments = <<>>
    /\ purchase_orders = InitialPurchaseOrders
    /\ requests = [t \in Threads |-> Idle]
    /\ sent_emails = <<>>
    /\ notification_rules = <<>>
    /\ now = 0
    /\ uuids = 0
    /\ response = [service |-> "", op |-> "", status |-> 0, request |-> NoData,
                   body |-> NoData]
    /\ pc = "idle"
    /\ transaction = NoTransaction
    /\ steps = <<>>
    /\ actual_outcome = "None"
    /\ listening = NobodyListening
    /\ results = <<>>

NextCRM ==
    \/ UpdateBalance
    \/ CreditCheck

SpecCRM == Init /\ [][NextCRM]_vars

NextERP ==
    \/ ProcessPayment
    \/ ValidateRequest

SpecERP == Init /\ [][NextERP]_vars

\* validate_transaction as a function of the invoice table and the request: the
\* tables it is applied to.  Each invoice of the sample data is pending, overdue
\* or paid, and INV-2025-003 has its own amount or one above the high-value
\* threshold of line 288.
InvoiceStatuses == {"pending", "overdue", "paid"}
HighValueAmounts == {Dollars(45000), Dollars(60000)}
InvoiceTables ==
    {[id \in InvoiceIds |->
         [InitialInvoices[id] EXCEPT
             !.status = st[id],
             !.amount = IF id = "INV-2025-003" THEN a ELSE @,
             !.paid_amount = IF st[id] # "paid" THEN 0
                             ELSE IF id = "INV-2025-003" THEN a
                             ELSE InitialInvoices[id].amount]] :
        st \in [InvoiceIds -> InvoiceStatuses], a \in HighValueAmounts}

InitValidate ==
    /\ customers = InitialCustomers
    /\ transactions = <<>>
    /\ invoices \in InvoiceTables
    /\ payments = <<>>
    /\ purchase_orders = InitialPurchaseOrders
    /\ requests = [t \in Threads |-> Idle]
    /\ sent_emails = <<>>
    /\ notification_rules = <<>>
    /\ now = 0
    /\ uuids = 0
    /\ response = [service |-> "", op |-> "", status |-> 0, request |-> NoData,
                   body |-> NoData]
    /\ pc = "idle"
    /\ transaction = NoTransaction
    /\ steps = <<>>
    /\ actual_outcome = "None"
    /\ listening = NobodyListening
    /\ results = <<>>

NextValidate == ValidateRequest

SpecValidate == InitValidate /\ [][NextValidate]_vars

NextEmail ==
    \/ SendTemplateEmail
    \/ EvaluateNotification

SpecEmail == Init /\ [][NextEmail]_vars

\* Payment requests handled by the threads of the server, interleaved.
NextConcurrent ==
    \E t \in Threads :
        \/ CheckPayment(t)
        \/ AppendPayment(t)
        \/ UpdateInvoice(t)

SpecConcurrent == Init /\ [][NextConcurrent]_vars

\* Payments and validations at the ERP, each validation result passed on to the
\* email service for evaluation.
NextNotify ==
    \/ ProcessPayment
    \/ ValidateRequest
    \/ EvaluateValidation

SpecNotify == Init /\ [][NextNotify]_vars

\* Every operation of the email service.
NextEmailLog ==
    \/ SendEmail
    \/ SendTemplateEmail
    \/ GetEmails
    \/ GetEmail
    \/ MarkEmailRead
    \/ CreateNotificationRule
    \/ EvaluateNotification

SpecEmailLog == Init /\ [][NextEmailLog]_vars

\* TEST_TRANSACTIONS.items() in the order of the dict.
TestNames == <<"perfect_match", "partial_payment", "unknown_customer",
               "high_value_payment", "overpayment", "suspended_customer",
               "zero_amount">>

\* run_all_tests, lines 149-158: the health check; the run is given up when it fails.
RunAllTests ==
    /\ pc = "idle"
    /\ \E services \in SUBSET Services, foreign \in ForeignAnswers :
          /\ listening' = [services |-> services, foreign |-> foreign]
          /\ pc' = IF check_services_health(listening')
                   THEN "next_test" ELSE "returned_false"
    /\ UNCHANGED <<crmVars, erpVars, emailVars, now, uuids, response,
                   transaction, steps, actual_outcome, results>>

\* run_all_tests, lines 161-165, and run_single_test, lines 177-188: the next
\* scenario of the loop is started.
NextTest ==
    /\ pc = "next_test"
    /\ Len(results) < Len(TestNames)
    /\ transaction' = TEST_TRANSACTIONS[TestNames[Len(results) + 1]]
    /\ steps' = <<>>
    /\ actual_outcome' = "None"
    /\ pc' = "customer_lookup"
    /\ UNCHANGED <<crmVars, erpVars, emailVars, now, uuids, response, runVars>>

\* run_all_tests, line 166: self.results.append(result).  Of the result the
\* model keeps the name of the test, its outcome and its success.
RecordResult ==
    /\ pc = "done"
    /\ Len(results) < Len(TestNames)
    /\ results' = Append(results, [test_name |-> TestNames[Len(results) + 1],
                                   actual_outcome |-> actual_outcome,
                                   success |-> TestSuccess])
    /\ pc' = "next_test"
    /\ UNCHANGED <<crmVars, erpVars, emailVars, now, uuids, response,
                   transaction, steps, actual_outcome, listening>>

\* run_all_tests, lines 172-173: the loop is over, the run returns True.
PrintSummary ==
    /\ pc = "next_test"
    /\ Len(results) = Len(TestNames)
    /\ pc' = "returned_true"
    /\ UNCHANGED <<crmVars, erpVars, emailVars, now, uuids, response,
                   transaction, steps, actual_outcome, runVars>>

NextRunAll ==
    \/ RunAllTests
    \/ NextTest
    \/ CheckCustomerExists
    \/ GetCustomerInvoices
    \/ ValidateTransaction
    \/ MakeDecision
    \/ SendNotifications
    \/ RecordResult
    \/ PrintSummary

SpecRunAll == Init /\ [][NextRunAll]_vars

NextHarness ==
    \/ PaymentBetweenTests
    \/ StartTest
    \/ CheckCustomerExists
    \/ GetCustomerInvoices
    \/ ValidateTransaction
    \/ MakeDecision
    \/ SendNotifications

SpecHarness == Init /\ [][NextHarness]_vars

-----------------------------------------------------------------------------
(* make_decision on every combination of its inputs: the harness stands before
   its decision step, holding step results the services can have answered with
   and step results of any other content. *)

DecisionAmounts ==
    {0 - Dollars(100), 0, 1, Dollars(5000), Dollars(50000), Dollars(50000) + 1,
     Dollars(75000)}

DecisionTransactions ==
    {Transaction("TXN-DECISION", a, m, "credit", "Decision input",
                 "2025-06-11T00:00:00Z", "DECISION_REF", "")
        : a \in OtherAccounts, m \in DecisionAmounts}

DecisionCustomerSteps(account_number) ==
    {check_customer_exists(account_number, up) : up \in BOOLEAN}
    \cup {[step |-> "customer_lookup", success |-> TRUE, error |-> "None",
           data |-> Customer("cust_x", account_number, st, Dollars(1000), 0)]
            : st \in {"active", "suspended", "closed"}}

DecisionValidationSteps(txn) ==
    {validate_transaction_step(txn, up) : up \in BOOLEAN}
    \cup {[step |-> "transaction_validation", success |-> TRUE, error |-> "None",
           data |-> [validation_status |-> vs, notes |-> <<"note">>]]
            : vs \in {"approved", "warning", "attention_required", "high_value", "pending"}}

InitDecision ==
    /\ customers = InitialCustomers
    /\ transactions = <<>>
    /\ invoices = InitialInvoices
    /\ payments = <<>>
    /\ purchase_orders = InitialPurchaseOrders
    /\ requests = [t \in Threads |-> Idle]
    /\ sent_emails = <<>>
    /\ notification_rules = <<>>
    /\ now = 0
    /\ uuids = 0
    /\ response = [service |-> "", op |-> "", status |-> 0, request |-> NoData,
                   body |-> NoData]
    /\ pc = "decision_making"
    /\ transaction \in DecisionTransactions
    /\ \E customer_step \in DecisionCustomerSteps(transaction.account_number),
          invoices_up \in BOOLEAN,
          validation_step \in DecisionValidationSteps(transaction) :
            steps = <<customer_step,
                      get_customer_invoices(transaction.account_number, invoices_up),
                      validation_step>>
    /\ actual_outcome = "None"
    /\ listening = NobodyListening
    /\ results = <<>>

NextDecision ==
    \/ MakeDecision
    \/ SendNotifications

SpecDecision == InitDecision /\ [][NextDecision]_vars

-----------------------------------------------------------------------------
(* Properties *)

\* The outstanding amount of an account: over its invoices, invoice amount minus
\* the recorded payments (process_payment, lines 146-147).
RECURSIVE SumOutstanding(_)
SumOutstanding(ids) ==
    IF ids = {} THEN 0
    ELSE LET id == CHOOSE x \in ids : TRUE
         IN  OutstandingAmount(id) + SumOutstanding(ids \ {id})

AccountOutstanding(account_number) == SumOutstanding(CustomerInvoices(account_number))

\* The harness has run its decision step.
Decided == pc \in {"notification", "done"} /\ Len(steps) >= 4

\* The harness has just run its decision step: the services are in the state the
\* steps of this test have seen (payments are applied between tests only).
JustDecided == pc = "notification" /\ Len(steps) = 4

\* C1: in every reachable state every customer's current_balance is at least
\* -credit_limit.
C1_BalanceNotBelowCreditLimit ==
    \A id \in CustomerIds :
        customers[id].current_balance >= 0 - customers[id].credit_limit

\* C2: for every invoice, paid_amount plus the outstanding amount (invoice amount
\* minus the recorded payments) equals the invoice amount within 0.01.
C2_PaidPlusOutstanding ==
    \A id \in InvoiceIds :
        abs(invoices[id].paid_amount + OutstandingAmount(id) - invoices[id].amount)
            <= Cents(1)

\* C2 witness: an invoice was settled with a remainder inside the tolerance, and
\* another payment request was answered after it.
C2_Witness ==
    /\ \E id \in InvoiceIds :
          /\ invoices[id].status = "paid"
          /\ OutstandingAmount(id) > 0
    /\ now > Len(payments)

\* C3: make_decision returns manual_review whenever the customer lookup did not
\* succeed, whatever the amount and the validation result.
C3_LookupFailedManualReview ==
    (Decided /\ ~steps[1].success) =>
        (steps[4].action = "manual_review" /\ actual_outcome = "manual_review")

\* C3 witness: account ACC-999888777 was not found by a reachable CRM, the amount
\* is not positive and the validation had succeeded.
C3_Witness ==
    /\ Decided
    /\ transaction.account_number = "ACC-999888777"
    /\ steps[1].error = "Customer not found"
    /\ transaction.amount <= 0
    /\ steps[3].success
    /\ steps[4].action = "manual_review"

C5_HighValueSuspendedManualReview ==
    (/\ JustDecided
     /\ steps[1].success
     /\ steps[1].data.status = "suspended"
     /\ transaction.amount > Dollars(50000)) =>
        actual_outcome = "manual_review"

\* C6: a payment with 0 < amount <= 50000 that is less than the account's
\* outstanding amount, from a found customer that is not suspended, is decided
\* review_and_process (scenario partial_payment).
C6_PartialPaymentReviewAndProcess ==
    (/\ JustDecided
     /\ transaction.type = "credit"
     /\ steps[1].success
     /\ steps[1].data.status # "suspended"
     /\ steps[3].success
     /\ transaction.amount > 0
     /\ transaction.amount <= Dollars(50000)
     /\ transaction.amount < AccountOutstanding(transaction.account_number)) =>
        actual_outcome = "review_and_process"

\* C7: in the initial state of the services, the payment of 12500 on account
\* ACC-789123456 validates as approved and is decided auto_process (every step
\* having reached its service).
C7_PerfectMatchAutoProcess ==
    (/\ JustDecided
     /\ transaction = TEST_TRANSACTIONS.perfect_match
     /\ payments = <<>>
     /\ steps[1].success
     /\ steps[3].success) =>
        (/\ steps[3].data.validation_status = "approved"
         /\ actual_outcome = "auto_process")

\* C7 witness: the scenario perfect_match was decided on the initial state.
C7_Witness ==
    /\ JustDecided
    /\ transaction = TEST_TRANSACTIONS.perfect_match
    /\ payments = <<>>
    /\ steps[1].success
    /\ steps[3].success
    /\ actual_outcome = "auto_process"

\* C8: a payment with 0 < amount <= 50000 that exceeds the account's outstanding
\* amount, from a found, active customer whose account has no overdue invoice,
\* validates as warning and is decided review_and_process.
C8_OverpaymentReviewAndProcess ==
    (/\ JustDecided
     /\ transaction.type = "credit"
     /\ steps[1].success
     /\ steps[1].data.status = "active"
     /\ steps[3].success
     /\ OverdueInvoices(transaction.account_number) = {}
     /\ transaction.amount > 0
     /\ transaction.amount <= Dollars(50000)
     /\ transaction.amount > AccountOutstanding(transaction.account_number)) =>
        (/\ steps[3].data.validation_status = "warning"
         /\ actual_outcome = "review_and_process")

\* C8 witness: the scenario overpayment (ACC-789123456, 25000) was decided
\* review_and_process.
C8_Witness ==
    /\ JustDecided
    /\ transaction = TEST_TRANSACTIONS.overpayment
    /\ steps[1].success
    /\ steps[3].success
    /\ steps[3].data.validation_status = "warning"
    /\ actual_outcome = "review_and_process"

\* C9: make_decision returns error for every transaction with amount <= 0 whose
\* customer was found and is not suspended, whatever the validation result.
C9_NonPositiveAmountError ==
    (/\ Decided
     /\ steps[1].success
     /\ steps[1].data.status # "suspended"
     /\ transaction.amount <= 0) =>
        (steps[4].action = "error" /\ actual_outcome = "error")

\* C9 witness: amount 0 from the active customer of ACC-789123456 with an
\* approved validation, decided error.
C9_Witness ==
    /\ Decided
    /\ transaction.account_number = "ACC-789123456"
    /\ transaction.amount = 0
    /\ steps[1].success
    /\ steps[1].data.status = "active"
    /\ steps[3].success
    /\ steps[3].data.validation_status = "approved"
    /\ steps[4].action = "error"

\* The ordered first-match table of the decision outcomes.
DecisionTable(found, status, amount, validated, validation_status) ==
    CASE ~found                                   -> "manual_review"
      [] found /\ status = "suspended"            -> "hold"
      [] found /\ status # "suspended" /\ amount <= 0
                                                  -> "error"
      [] found /\ status # "suspended" /\ amount > Dollars(50000)
                                                  -> "manual_review"
      [] OTHER ->
            IF ~validated THEN "manual_review"
            ELSE CASE validation_status = "approved" -> "auto_process"
                   [] validation_status = "warning"  -> "review_and_process"
                   [] OTHER                          -> "manual_review"

C11_CreditCheckApproved ==
    (response.op = "credit_check" /\ response.status = 200) =>
        LET customer == customers[response.request.customer_id]
            amount   == response.request.amount
        IN  /\ response.body.approved =
                  (/\ amount <= customer.credit_limit - customer.current_balance
                   /\ customer.status = "active")
            /\ (customer.status # "active" => ~response.body.approved)

\* C11 witness: the suspended customer cust_003 asked for an amount within its
\* available credit and was refused, after the ledger has changed.
C11_Witness ==
    /\ response.op = "credit_check"
    /\ response.status = 200
    /\ response.request.customer_id = "cust_003"
    /\ response.request.amount <= response.body.available_credit
    /\ ~response.body.approved
    /\ Len(transactions) > 0

\* A response body without its timestamp field.
WithoutTimestamp(body) == [f \in DOMAIN body \ {"timestamp"} |-> body[f]]

\* C12: validate_transaction has no side effects: a validation leaves invoices,
\* purchase orders and payments unchanged, and a validation that follows a
\* validation of the same inputs returns the same result apart from the timestamp.
C12_ValidateNoSideEffects ==
    [][response'.op = "validate_transaction" =>
         /\ UNCHANGED <<invoices, purchase_orders, payments>>
         /\ (/\ response.op = "validate_transaction"
             /\ response'.request = response.request)
            => /\ response'.status = response.status
               /\ WithoutTimestamp(response'.body) = WithoutTimestamp(response.body)]_vars

\* C12 witness: a validation answered for an account with a pending invoice, after
\* a payment has been recorded.
C12_Witness ==
    /\ response.op = "validate_transaction"
    /\ response.status = 200
    /\ response.request.account_number = "ACC-789123456"
    /\ response.body.invoice_count = 1
    /\ invoices["INV-2025-001"].status = "pending"
    /\ Len(payments) > 0

\* A step that handled a payment request: the clock advances with it.
PaymentStep == now' # now /\ response'.op = "process_payment"

\* C13: a payment request whose amount is greater than the invoice's outstanding
\* amount (invoice amount minus the sum of the prior payments for that invoice)
\* is answered with an error carrying overpayment = amount - outstanding, and it
\* changes nothing: no payment record is appended and the invoice is unchanged.
C13_OverpaymentRejected ==
    [][(/\ PaymentStep
        /\ response'.request.invoice_id \in DOMAIN invoices
        /\ response'.request.amount >
               invoices[response'.request.invoice_id].amount
                   - SumPayments(payments, response'.request.invoice_id))
       => LET invoice_id  == response'.request.invoice_id
              amount      == response'.request.amount
              outstanding == invoices[invoice_id].amount
                                 - SumPayments(payments, invoice_id)
          IN  /\ response'.status = 400
              /\ response'.body.overpayment = amount - outstanding
              /\ payments' = payments
              /\ invoices' = invoices]_vars

\* C13 witness: a payment smaller than the invoice amount was rejected because of
\* the payments recorded before it.
C13_Witness ==
    /\ response.op = "process_payment"
    /\ response.status = 400
    /\ response.request.invoice_id \in DOMAIN invoices
    /\ response.request.amount < invoices[response.request.invoice_id].amount
    /\ response.body.overpayment > 0
    /\ SumPayments(payments, response.request.invoice_id) > 0
    /\ invoices[response.request.invoice_id].status = "partially_paid"

\* C14: an accepted payment appends exactly one payment record with
\* outstanding_after = outstanding_before - amount, sets the invoice status to
\* paid when the new outstanding is at most 0.01 and to partially_paid otherwise,
\* and sets paid_amount to the invoice amount (paid) or to the invoice amount
\* minus the new outstanding (partially_paid).
C14_AcceptedPayment ==
    [][(PaymentStep /\ response'.status = 200)
       => LET invoice_id == response'.request.invoice_id
              amount     == response'.request.amount
              before     == invoices[invoice_id].amount
                                - SumPayments(payments, invoice_id)
              after      == before - amount
              record     == payments'[Len(payments')]
              invoice    == invoices'[invoice_id]
          IN  /\ Len(payments') = Len(payments) + 1
              /\ SubSeq(payments', 1, Len(payments)) = payments
              /\ record.invoice_id = invoice_id
              /\ record.amount = amount
              /\ record.outstanding_before = before
              /\ record.outstanding_after = before - amount
              /\ invoice.status = IF after <= Cents(1) THEN "paid" ELSE "partially_paid"
              /\ invoice.paid_amount = IF after <= Cents(1)
                                       THEN invoice.amount
                                       ELSE invoice.amount - after
              /\ \A other \in DOMAIN invoices \ {invoice_id} :
                     invoices'[other] = invoices[other]]_vars

\* C14 witness: a second payment on the same invoice was accepted and settled it.
C14_Witness ==
    /\ response.op = "process_payment"
    /\ response.status = 200
    /\ Len(payments) = 2
    /\ payments[1].invoice_id = payments[2].invoice_id
    /\ payments[2].outstanding_before < invoices[payments[2].invoice_id].amount
    /\ invoices[payments[2].invoice_id].status = "paid"

\* C16: the outstanding amount that validate_transaction compares a payment
\* against is invoice amount minus the sum of all prior payments: the
\* outstanding_invoices it reports for an account is the sum, over the account's
\* invoices, of (invoice amount - recorded payments for the invoice), so a
\* payment equal to the remainder is not flagged as exceeding the outstanding.
C16_ValidateOutstandingMinusPayments ==
    (response.op = "validate_transaction" /\ response.status = 200) =>
        LET account_number == response.request.account_number
        IN  /\ response.body.outstanding_invoices = AccountOutstanding(account_number)
            /\ (/\ response.request.type = "payment"
                /\ response.request.amount = AccountOutstanding(account_number))
               => \A i \in DOMAIN response.body.notes :
                      response.body.notes[i] # "Payment amount exceeds outstanding invoices"

\* C15: validate_transaction assigns validation_status by sequential overwrite:
\* high_value if the account's outstanding exceeds 50000; otherwise
\* attention_required if the account has at least one overdue invoice; otherwise
\* warning if the type is payment and the amount exceeds the outstanding;
\* otherwise approved.
C15_ValidationPrecedence ==
    (response.op = "validate_transaction" /\ response.status = 200) =>
        LET account_number == response.request.account_number
            outstanding    == ValidationOutstanding(account_number)
        IN  response.body.validation_status =
                CASE outstanding > Dollars(50000) -> "high_value"
                  [] OverdueInvoices(account_number) # {} -> "attention_required"
                  [] /\ response.request.type = "payment"
                     /\ response.request.amount > outstanding -> "warning"
                  [] OTHER -> "approved"

\* C15 witness: all three checks hold at once (three notes) and the last one
\* decides the status.
C15_Witness ==
    /\ response.op = "validate_transaction"
    /\ response.status = 200
    /\ Len(response.body.notes) = 3
    /\ response.body.validation_status = "high_value"

\* A step that handled an update-balance request: the clock advances with it.
UpdateStep == now' # now /\ response'.op = "update_balance"

\* C17: when update_balance rejects a request because the resulting negative
\* balance would exceed the credit limit in magnitude, the customer's state is
\* unchanged: current_balance, last_payment_date and last_payment_amount keep
\* their values from before the request, and no transaction record is appended.
C17_RejectedUpdateChangesNothing ==
    [][(UpdateStep /\ response'.status = 400)
       => LET customer_id == response'.request.customer_id
          IN  /\ customers'[customer_id].current_balance =
                     customers[customer_id].current_balance
              /\ customers'[customer_id].last_payment_date =
                     customers[customer_id].last_payment_date
              /\ customers'[customer_id].last_payment_amount =
                     customers[customer_id].last_payment_amount
              /\ transactions' = transactions]_vars

\* C18: every accepted update_balance appends exactly one transaction record
\* whose old_balance is the balance before the request and whose new_balance is
\* the balance after it, with new_balance = old_balance - amount for type payment
\* and new_balance = old_balance + amount for types charge and adjustment;
\* existing records are never altered or removed.
C18_AcceptedUpdateRecorded ==
    [][/\ (UpdateStep /\ response'.status = 200)
          => LET customer_id == response'.request.customer_id
                 amount      == response'.request.amount
                 type        == response'.request.type
                 before      == customers[customer_id].current_balance
                 after       == customers'[customer_id].current_balance
                 record      == transactions'[Len(transactions')]
             IN  /\ Len(transactions') = Len(transactions) + 1
                 /\ record.customer_id = customer_id
                 /\ record.old_balance = before
                 /\ record.new_balance = after
                 /\ (type = "payment" => record.new_balance = record.old_balance - amount)
                 /\ (type \in {"charge", "adjustment"}
                        => record.new_balance = record.old_balance + amount)
       /\ Len(transactions') >= Len(transactions)
       /\ SubSeq(transactions', 1, Len(transactions)) = transactions]_vars

\* C18 witness: a negative adjustment was accepted and recorded after an earlier
\* record.
C18_Witness ==
    /\ response.op = "update_balance"
    /\ response.status = 200
    /\ Len(transactions) = 2
    /\ transactions[2].type = "adjustment"
    /\ transactions[2].amount < 0
    /\ transactions[2].new_balance = customers[transactions[2].customer_id].current_balance

\* A step that handled a send-template-email request: the clock advances with it.
TemplateEmailStep == now' # now /\ response'.op = "send_template_email"

\* C19: a send-template-email request with an unknown template name, or with
\* data that lacks a placeholder of the template's subject or body, is answered
\* with an error and appends no email; with a known template and all
\* placeholders supplied it appends exactly one unread email whose category is
\* the template name.
C19_TemplateEmail ==
    [][TemplateEmailStep
       => LET name  == response'.request.template
              data  == response'.request.data
              known == name \in DOMAIN email_templates
              complete ==
                  /\ known
                  /\ \A f \in email_templates[name].subject
                                 \cup email_templates[name].template :
                         f \in DOMAIN data
          IN  IF ~known \/ ~complete
              THEN /\ response'.status = 400
                   /\ sent_emails' = sent_emails
              ELSE /\ response'.status = 200
                   /\ Len(sent_emails') = Len(sent_emails) + 1
                   /\ SubSeq(sent_emails', 1, Len(sent_emails)) = sent_emails
                   /\ sent_emails'[Len(sent_emails')].read = FALSE
                   /\ sent_emails'[Len(sent_emails')].category = name]_vars

\* C19 witness: a request for a known template whose subject can be formatted
\* but whose body lacks a field was refused, after an email had been sent.
C19_Witness ==
    /\ response.op = "send_template_email"
    /\ response.status = 400
    /\ response.request.template = "suspended_customer_payment"
    /\ DOMAIN response.request.data = {"customer_name"}
    /\ Len(sent_emails) = 1
    /\ sent_emails[1].category = "unknown_customer"
    /\ ~sent_emails[1].read

\* C20: evaluate-notification returns exactly the notification rules whose
\* condition holds, all of them and not only the first: high_value_alert iff
\* amount > 50000, suspended_customer_payment iff the customer status is
\* suspended, unknown_customer iff the customer is absent, payment_mismatch iff
\* validation_status is warning or attention_required, overpayment_alert iff
\* 'overpayment' is an entry of the validation notes; should_notify is true iff
\* that set is non-empty, and the request changes no stored state.
C20_EvaluateAllMatchingRules ==
    [][response'.op = "evaluate_notification"
       => LET txn               == response'.request.transaction
              customer          == response'.request.customer
              validation_result == response'.request.validation_result
              notifications     == response'.body.notifications
              returned == {notifications[i].template : i \in DOMAIN notifications}
              matching ==
                  {t \in DOMAIN email_templates :
                      CASE t = "high_value_alert" ->
                               /\ "amount" \in DOMAIN txn
                               /\ txn.amount > Dollars(50000)
                        [] t = "suspended_customer_payment" ->
                               /\ "status" \in DOMAIN customer
                               /\ customer.status = "suspended"
                        [] t = "unknown_customer" -> DOMAIN customer = {}
                        [] t = "payment_mismatch" ->
                               /\ "validation_status" \in DOMAIN validation_result
                               /\ validation_result.validation_status
                                      \in {"warning", "attention_required"}
                        [] t = "overpayment_alert" ->
                               /\ "notes" \in DOMAIN validation_result
                               /\ \E i \in DOMAIN validation_result.notes :
                                      validation_result.notes[i] = "overpayment"}
          IN  /\ returned = matching
              /\ Len(notifications) = Cardinality(matching)
              /\ response'.body.should_notify = (matching # {})
              /\ UNCHANGED <<sent_emails, notification_rules, uuids>>
              /\ UNCHANGED <<crmVars, erpVars>>]_vars

\* C20 witness: four rules hold at once and all four are returned, with an email
\* in the log.
C20_Witness ==
    /\ response.op = "evaluate_notification"
    /\ response.body.should_notify
    /\ Len(response.body.notifications) = 4
    /\ response.body.notifications[1].template = "high_value_alert"
    /\ response.body.notifications[4].template = "overpayment_alert"
    /\ Len(sent_emails) = 1

\* C24: when payment requests are handled one at a time, then after any sequence
\* of them (any amounts, accepted or rejected) the sum of the recorded payment
\* amounts of each invoice never exceeds the invoice's amount.
C24_PaymentsWithinInvoiceAmount ==
    \A invoice_id \in DOMAIN invoices :
        SumPayments(payments, invoice_id) <= invoices[invoice_id].amount

\* C24 witness: a request that would have taken the sum above the invoice amount
\* was refused after an accepted payment on the same invoice.
C24_Witness ==
    /\ response.op = "process_payment"
    /\ response.status = 400
    /\ Len(payments) = 1
    /\ payments[1].invoice_id = response.request.invoice_id
    /\ payments[1].amount > 0
    /\ payments[1].amount + response.request.amount
           > invoices[response.request.invoice_id].amount

\* C26: once an invoice has status paid, it keeps status paid and paid_amount
\* equal to its amount under every later payment request, for any request amount
\* including zero and negative amounts.
C26_PaidStaysPaid ==
    [][\A invoice_id \in DOMAIN invoices :
           invoices[invoice_id].status = "paid"
           => /\ invoices'[invoice_id].status = "paid"
              /\ invoices'[invoice_id].paid_amount = invoices'[invoice_id].amount]_vars

RECURSIVE LastRecord(_, _)
\* The index of the customer's most recent record among the first n records of
\* the ledger, 0 when there is none.
LastRecord(customer_id, n) ==
    IF n = 0 THEN 0
    ELSE IF transactions[n].customer_id = customer_id THEN n
    ELSE LastRecord(customer_id, n - 1)

\* C25: the CRM ledger stays consistent with the customer records: each
\* customer's current_balance equals the new_balance of the customer's most
\* recent transaction record, or the customer's initial balance if the customer
\* has no record; and the old_balance of each record equals the new_balance of
\* the customer's previous record.
C25_LedgerConsistent ==
    /\ \A customer_id \in DOMAIN customers :
           LET last == LastRecord(customer_id, Len(transactions))
           IN  customers[customer_id].current_balance =
                   IF last = 0 THEN InitialCustomers[customer_id].current_balance
                   ELSE transactions[last].new_balance
    /\ \A n \in DOMAIN transactions :
           LET previous == LastRecord(transactions[n].customer_id, n - 1)
           IN  transactions[n].old_balance =
                   IF previous = 0
                   THEN InitialCustomers[transactions[n].customer_id].current_balance
                   ELSE transactions[previous].new_balance

\* C23: under any sequence of email-service operations (send, send_templated,
\* list, get, mark_read, evaluate, rule creation) the email log is append-only:
\* no email is ever removed, the fields of a stored email other than read and
\* read_timestamp never change, and a read flag that is true never returns to
\* false; mark_read on an unknown id changes nothing.
C23_EmailLogAppendOnly ==
    [][/\ Len(sent_emails') >= Len(sent_emails)
       /\ \A i \in DOMAIN sent_emails :
              /\ DOMAIN sent_emails'[i] = DOMAIN sent_emails[i]
              /\ \A f \in DOMAIN sent_emails[i] \ {"read", "read_timestamp"} :
                     sent_emails'[i][f] = sent_emails[i][f]
              /\ sent_emails[i].read => sent_emails'[i].read
       /\ (/\ now' # now
           /\ response'.op = "mark_email_read"
           /\ \A i \in DOMAIN sent_emails :
                  sent_emails[i].id # response'.request.email_id)
          => /\ response'.status = 404
             /\ UNCHANGED <<sent_emails, notification_rules>>]_vars

\* C23 witness: a stored email has been marked read, it keeps the time it was
\* sent at, and a later listing of the unread emails has left it out and left
\* it read.
C23_Witness ==
    /\ response.op = "get_emails"
    /\ response.request.unread
    /\ response.body.total = 0
    /\ Len(sent_emails) = 1
    /\ sent_emails[1].read
    /\ sent_emails[1].read_timestamp = 1
    /\ sent_emails[1].timestamp = 0

\* C28: for every validation result that validate_transaction can produce in a
\* reachable state (including a payment that exceeds the outstanding amount),
\* evaluate-notification does not include overpayment_alert in its
\* notifications: no note produced by validate_transaction is the exact entry
\* 'overpayment'.
C28_NoOverpaymentAlert ==
    (/\ response.op = "evaluate_notification"
     /\ "outstanding_invoices" \in DOMAIN response.request.validation_result)
    => /\ \A i \in DOMAIN response.body.notifications :
              response.body.notifications[i].template # "overpayment_alert"
       /\ \A i \in DOMAIN response.request.validation_result.notes :
              response.request.validation_result.notes[i] # "overpayment"

\* C28 witness: a payment above the outstanding amount was validated with the
\* note of line 281, after a recorded payment, and its evaluation returned the
\* payment_mismatch rule only.
C28_Witness ==
    /\ response.op = "evaluate_notification"
    /\ Len(payments) > 0
    /\ response.request.validation_result.validation_status = "warning"
    /\ response.request.validation_result.notes =
           <<"Payment amount exceeds outstanding invoices">>
    /\ Len(response.body.notifications) = 1
    /\ response.body.notifications[1].template = "payment_mismatch"

\* C21: when two payment requests for the same invoice are handled concurrently,
\* both can compute the same outstanding amount before either appends its
\* payment, so both are accepted and a state is reachable (the witness) in which
\* the sum of the recorded payments of the invoice exceeds the invoice amount.
\* Every recorded payment has passed the check against the outstanding amount
\* its handler computed, and the sum exceeds the invoice amount only when some
\* payment was checked against an outstanding amount that was no longer the
\* invoice amount minus the payments recorded before it.
C21_OverpaymentByRace ==
    /\ \A j \in DOMAIN payments : payments[j].amount <= payments[j].outstanding_before
    /\ \A invoice_id \in DOMAIN invoices :
           SumPayments(payments, invoice_id) > invoices[invoice_id].amount
           => \E j \in DOMAIN payments :
                  /\ payments[j].invoice_id = invoice_id
                  /\ payments[j].outstanding_before #
                         invoices[invoice_id].amount
                             - SumPayments(SubSeq(payments, 1, j - 1), invoice_id)

\* C21 witness: both requests have been answered, their two payments were
\* checked against the same outstanding amount, and the payments recorded for
\* the invoice add up to more than its amount.
C21_Witness ==
    /\ \A t \in Threads : requests[t].pc = "idle"
    /\ response.status = 200
    /\ Len(payments) = 2
    /\ payments[1].invoice_id = payments[2].invoice_id
    /\ payments[1].outstanding_before = payments[2].outstanding_before
    /\ SumPayments(payments, payments[1].invoice_id)
           > invoices[payments[1].invoice_id].amount

\* The steps of run_single_test in source order, and the errors a step records
\* when its call to a service raised.
StepNames == <<"customer_lookup", "invoice_lookup", "transaction_validation",
               "decision_making", "notification">>
ApiErrors == {"CRM API Error", "ERP API Error", "Validation API Error", "Email API Error"}

\* C22: run_single_test always executes its five steps in the order
\* customer_lookup, invoice_lookup, transaction_validation, decision_making,
\* notification: a step whose service was unreachable records success = false,
\* every later step still runs (the next step is enabled whatever the earlier
\* ones recorded), and the finished test carries an actual_outcome.
C22_FiveStepsInOrder ==
    /\ Len(steps) <= 5
    /\ \A i \in DOMAIN steps : steps[i].step = StepNames[i]
    /\ \A i \in DOMAIN steps \ {4} : steps[i].error \in ApiErrors => ~steps[i].success
    /\ pc \notin {"idle", "done"} => pc = StepNames[Len(steps) + 1]
    /\ pc = "customer_lookup" => ENABLED CheckCustomerExists
    /\ pc = "invoice_lookup" => ENABLED GetCustomerInvoices
    /\ pc = "transaction_validation" => ENABLED ValidateTransaction
    /\ pc = "decision_making" => ENABLED MakeDecision
    /\ pc = "notification" => ENABLED SendNotifications
    /\ pc = "done" => /\ Len(steps) = 5
                      /\ actual_outcome = steps[4].action
                      /\ actual_outcome # "None"

\* C22 witness: a finished test during which CRM and ERP were unreachable at
\* every call: the three lookups and the notification failed, all five steps
\* ran and the outcome is manual_review.
C22_Witness ==
    /\ pc = "done"
    /\ Len(steps) = 5
    /\ steps[1].error = "CRM API Error" /\ ~steps[1].success
    /\ steps[2].error = "ERP API Error" /\ ~steps[2].success
    /\ steps[3].error = "Validation API Error" /\ ~steps[3].success
    /\ steps[5].error = "Email API Error" /\ ~steps[5].success
    /\ actual_outcome = "manual_review"

\* C29: with the three services up on the ports of their own code and nothing
\* else listening, the health check of run_all_tests does not fail (the run
\* goes on to the scenarios instead of returning False).
C29_HealthyServicesRunEveryScenario ==
    (listening.services = Services /\ listening.foreign = "none")
        => pc # "returned_false"

\* C27: whatever the decision, send_notifications succeeds when the email service
\* is up (and nothing else listens): for auto_process without sending, for
\* manual_review, hold, review_and_process and error with the one templated
\* email the email service accepts and appends.
C27_NotificationSentWhenEmailUp ==
    JustDecided =>
        LET step == send_notifications(transaction, steps[4], TRUE, "none")
        IN  /\ step.success
            /\ step.error = "None"

\* The payload of send_notifications is one the email service accepts: the
\* template exists and the data supply every placeholder of subject and body.
NotificationAccepted ==
    (JustDecided /\ template_map(steps[4].action) # "None") =>
        send_template_email_response(template_map(steps[4].action),
                                     NotificationData(transaction, steps[4])).status = 200

====
